---- MODULE Spec2Model ----
(***************************************************************************)
(* Run orchestration and reconciliation of the job scraper                 *)
(* (python_scraper/scraper): claim_next_run, run_pipeline and its store    *)
(* operations, background_worker, and the /trigger endpoint.               *)
(*                                                                         *)
(* The store is PostgreSQL reached through an asyncpg pool.  db.fetch,     *)
(* db.fetchrow and db.execute each run one statement on a pooled           *)
(* connection outside any transaction block, so each is its own            *)
(* transaction: its row locks end with the statement.  save_jobs and       *)
(* upsert_companies run their statements inside conn.transaction(): their  *)
(* writes are invisible to others and their rows stay locked until the     *)
(* block commits, and are discarded when a statement raises.               *)
(* Every await on the store is one step of a worker; any of them may       *)
(* raise instead (store unavailable, deadlock victim, ...): action Fault.  *)
(***************************************************************************)
EXTENDS Integers, Sequences, FiniteSets, TLC

\* ------------------------------------------------------------------ bounds
NumWorkers == 2
MaxRuns == 2
MaxDiscovered == 2
MaxBatch == 2
MaxText == 4
MaxDedup == 3
MaxWords == 2
MaxFound == 3

NULL == "NULL"

\* SQL NULL / Python None in a place that otherwise holds a record, a number or a
\* sequence (a URL).
None == <<>>

Some(x) == <<x>>

\* A NULL careers_endpoint_payload, and the {} that stands in for it.
NullPayload == [type |-> NULL, method |-> NULL]

Workers == 1..NumWorkers
RunIds == 1..MaxRuns

Range(s) == {s[i] : i \in 1..Len(s)}

SeqsUpTo(S, n) == UNION {[1..k -> S] : k \in 0..n}

Min(S) == CHOOSE x \in S : \A y \in S : x <= y

\* A fresh primary key (the tables' id columns default to a generated uuid).
FreshId(used) == Min({i \in 1..(Cardinality(used) + 1) : i \notin used})

\* ----------------------------------------------------------------- strings
\* A string is a sequence of characters; these are the characters used.
LowerChars == {"a", "b"}
UpperChars == {"A", "B"}
WordChars == LowerChars \cup UpperChars \cup {"1", "_"}
SpaceChars == {" "}

ToLower(c) ==
    CASE c = "A" -> "a" [] c = "B" -> "b" [] c = "S" -> "s" [] c = "L" -> "l" [] OTHER -> c

RECURSIVE Filter(_, _)
Filter(s, Keep) ==
    IF s = <<>> THEN <<>>
    ELSE IF Head(s) \in Keep THEN <<Head(s)>> \o Filter(Tail(s), Keep)
    ELSE Filter(Tail(s), Keep)

RECURSIVE LStrip(_)
LStrip(s) == IF s # <<>> /\ Head(s) \in SpaceChars THEN LStrip(Tail(s)) ELSE s

RECURSIVE RStrip(_)
RStrip(s) ==
    IF s # <<>> /\ s[Len(s)] \in SpaceChars THEN RStrip(SubSeq(s, 1, Len(s) - 1)) ELSE s

Strip(s) == RStrip(LStrip(s))

\* re.sub(r"[^\w\s]", "", text.lower()).strip()
normalize(text) ==
    Strip(Filter([i \in 1..Len(text) |-> ToLower(text[i])], WordChars \cup SpaceChars))

\* f"{normalize(title)}|{normalize(company)}|{normalize(location)}"
job_key(job) ==
    normalize(job.title) \o <<"|">> \o normalize(job.company) \o <<"|">> \o normalize(job.location)

RECURSIVE DedupFrom(_, _)
DedupFrom(jobs, seen) ==
    IF jobs = <<>> THEN <<>>
    ELSE IF job_key(Head(jobs)) \in seen THEN DedupFrom(Tail(jobs), seen)
    ELSE <<Head(jobs)>> \o DedupFrom(Tail(jobs), seen \cup {job_key(Head(jobs))})

\* deduplicate keeping the last job of every key in place of the first.
deduplicate_KeepLast(jobs) ==
    LET Reversed(s) == [i \in 1..Len(s) |-> s[Len(s) + 1 - i]]
    IN  Reversed(DedupFrom(Reversed(jobs), {}))

\* seen = set(); unique = []; for j in jobs: ...; return unique
deduplicate(jobs) == DedupFrom(jobs, {})

\* -------------------------------------------------------------------- urls
\* A careers URL is its host followed by its path segments.
HasSegmentInside(url, seg) == \E i \in 2..(Len(url) - 1) : url[i] = seg

HasJsonSuffix(url) == \E i \in 2..Len(url) : url[i] = "jobs.json"

\* any(t in url for t in ["/api/", ".json", "/v1/", "/v2/"])
detect_endpoint(url) ==
    IF \/ HasSegmentInside(url, "api") \/ HasJsonSuffix(url)
       \/ HasSegmentInside(url, "v1") \/ HasSegmentInside(url, "v2")
    THEN [type |-> "api", method |-> "GET"]
    ELSE [type |-> "webpage", method |-> "GET"]

\* ------------------------------------------------------------------ inputs
\* What the search engines can return (raw candidates of _extract_company).
CandA1 ==
    [name |-> <<"A">>, domain |-> <<"a">>, careers_url |-> <<"a.com", "careers">>,
     discovery_source |-> "search_engine"]

CandA2 ==
    [name |-> <<"A">>, domain |-> <<"b", "1">>, careers_url |-> None,
     discovery_source |-> "search_engine"]

CandB1 ==
    [name |-> <<"B">>, domain |-> <<"b">>, careers_url |-> <<"b.com", "api", "jobs">>,
     discovery_source |-> "search_engine"]

AllCandidates == {CandA1, CandA2, CandB1}

CompanyIds == 1..Cardinality({c.name : c \in AllCandidates})

Titles == {<<"a">>, <<"b">>}
Urls == {"X", "Y"}

\* What a careers page or API can list: title, location and apply URL of a posting.
Posting(t, u) == [title |-> t, location |-> <<"a">>, application_url |-> u]

AllPostings == {Posting(t, u) : t \in Titles, u \in Urls}

\* ------------------------------------------------------------------- state
VARIABLES
    runs,          \* table scraping_runs: run id -> row
    companies,     \* table companies: set of committed rows
    jobs,          \* table jobs: set of committed rows
    clock,         \* the store's NOW(), as far as started_at orders the queue
    pc,            \* worker -> where its background_worker coroutine is suspended
    run_id,        \* worker -> run_id of claim_next_run / run_pipeline
    metrics,       \* worker -> RunMetrics of the running run_pipeline
    discovered,    \* worker -> candidates upsert_companies has still to write
    todo,          \* worker -> companies the for loop of run_pipeline has still to visit
    unique,        \* worker -> jobs save_jobs has still to write
    current_urls,  \* worker -> current_urls of invalidate_missing
    to_disable,    \* worker -> to_disable of invalidate_missing
    txn,           \* worker -> rows written in its open conn.transaction()
    claimed,       \* history: run id -> number of claim_next_run calls that returned it
    terminal,      \* history: worker -> terminal status updates written by its run_pipeline
    lastScrape,    \* history: company id -> URLs of its latest non-empty scrape
    before,        \* history: worker -> jobs table, metrics and batch when the loop
                   \*          body it is in, or has just completed, began, and
                   \*          whether its save_jobs was the last to commit for the company
    passed,        \* history: worker -> what its run_pipeline has handed on so far:
                   \*          the jobs passed to save_jobs, the companies whose
                   \*          scrape returned at least one job, and the job writes
                   \*          of the save_jobs transactions that committed
    probe          \* a call of one of the pure functions: its arguments and result

vars ==
    <<runs, companies, jobs, clock, pc, run_id, metrics, discovered, todo, unique,
      current_urls, to_disable, txn, claimed, terminal, lastScrape, before, passed,
      probe>>

locals == <<discovered, todo, unique, current_urls, to_disable, txn>>

\* Everything but probe: the pure functions touch none of it.
store ==
    <<runs, companies, jobs, clock, pc, run_id, metrics, locals, claimed, terminal,
      lastScrape, before, passed>>

\* claim_next_run's "return None": no run id.
NoRun == 0

\* RunMetrics()
RunMetrics ==
    [companies_discovered |-> 0, companies_with_careers |-> 0, companies_scraped |-> 0,
     jobs_scraped |-> 0, jobs_inserted |-> 0, jobs_updated |-> 0,
     jobs_marked_unavailable |-> 0, errors |-> <<>>]

\* The INSERT names no started_at: the column takes the time of the enqueue.
EnqueueTime(now) == now

\* INSERT INTO scraping_runs (status) VALUES ('queued')
QueuedRun(now) ==
    [status |-> "queued", started_at |-> EnqueueTime(now), finished_at |-> NULL, details |-> None,
     companies_scraped |-> None, jobs_scraped |-> None, jobs_inserted |-> None,
     jobs_updated |-> None, jobs_marked_unavailable |-> None]

\* run_pipeline has called neither scrape_company nor save_jobs yet.
NothingPassed == [unique |-> 0, nonempty |-> 0, committed |-> 0]

\* The store is empty and every worker is about to make its first claim.
InitStore ==
    /\ runs = <<>>
    /\ companies = {}
    /\ jobs = {}
    /\ clock = 0
    /\ pc = [w \in Workers |-> "poll"]
    /\ run_id = [w \in Workers |-> NoRun]
    /\ metrics = [w \in Workers |-> RunMetrics]
    /\ discovered = [w \in Workers |-> <<>>]
    /\ todo = [w \in Workers |-> <<>>]
    /\ unique = [w \in Workers |-> <<>>]
    /\ current_urls = [w \in Workers |-> <<>>]
    /\ to_disable = [w \in Workers |-> {}]
    /\ txn = [w \in Workers |-> {}]
    /\ claimed = [r \in RunIds |-> 0]
    /\ terminal = [w \in Workers |-> 0]
    /\ lastScrape = [c \in CompanyIds |-> {}]
    /\ before = [w \in Workers |-> None]
    /\ passed = [w \in Workers |-> NothingPassed]

Init == InitStore /\ probe = None

\* ----------------------------------------------------------------- trigger
\* api.trigger: an external actor queues a run.
Trigger ==
    /\ Len(runs) < MaxRuns
    /\ clock' = clock + 1
    /\ runs' = Append(runs, QueuedRun(clock + 1))
    /\ UNCHANGED <<probe, passed, companies, jobs, pc, run_id, metrics, locals, claimed, terminal,
                   lastScrape, before>>

\* ------------------------------------------------------------------- claim
\* Queued with the SELECT's filter on the wrong status.
Queued_Running == {r \in DOMAIN runs : runs[r].status = "running"}

Queued == {r \in DOMAIN runs : runs[r].status = "queued"}

\* OldestQueued with the order reversed: ORDER BY started_at DESC.
OldestQueued_Newest ==
    {r \in Queued : \A q \in Queued : runs[r].started_at >= runs[q].started_at}

\* ... WHERE status='queued' ORDER BY started_at ASC FOR UPDATE SKIP LOCKED LIMIT 1
\* No other statement holds a row lock while this one runs: nothing is skipped.
OldestQueued == {r \in Queued : \A q \in Queued : runs[r].started_at <= runs[q].started_at}

\* An exception that leaves background_worker ends the worker task.
Die(w) ==
    /\ pc' = [pc EXCEPT ![w] = "dead"]
    /\ UNCHANGED <<probe, passed, runs, companies, jobs, clock, run_id, metrics, locals, claimed,
                   terminal, lastScrape, before>>

\* claim_next_run, the SELECT; None is returned when there is no row.
ClaimSelect(w) ==
    /\ pc[w] = "poll"
    /\ \/ /\ Queued = {}
          /\ pc' = [pc EXCEPT ![w] = "sleep"]
          /\ run_id' = [run_id EXCEPT ![w] = NoRun]
          /\ UNCHANGED <<probe, passed, runs, companies, jobs, clock, metrics, locals, claimed,
                         terminal, lastScrape, before>>
       \/ /\ \E r \in OldestQueued :
                run_id' = [run_id EXCEPT ![w] = r]
          /\ pc' = [pc EXCEPT ![w] = "claim_update"]
          /\ UNCHANGED <<probe, passed, runs, companies, jobs, clock, metrics, locals, claimed,
                         terminal, lastScrape, before>>

\* UPDATE scraping_runs SET status='running', started_at=NOW() WHERE id=$1
MarkRunning(rs, r, now) == [rs EXCEPT ![r].status = "running", ![r].started_at = now]

\* claim_next_run, the UPDATE and the return; run_pipeline starts with RunMetrics().
ClaimUpdate(w) ==
    /\ pc[w] = "claim_update"
    /\ runs' = MarkRunning(runs, run_id[w], clock)
    /\ claimed' = [claimed EXCEPT ![run_id[w]] = @ + 1]
    /\ metrics' = [metrics EXCEPT ![w] = RunMetrics]
    /\ terminal' = [terminal EXCEPT ![w] = 0]
    /\ pc' = [pc EXCEPT ![w] = "discover"]
    /\ passed' = [passed EXCEPT ![w] = NothingPassed]
    /\ UNCHANGED <<probe, companies, jobs, clock, run_id, locals, lastScrape, before>>

\* ---------------------------------------------------------------- pipeline
\* Rows written in the open transaction of worker v, by table.
CompanyTxn(v) == IF pc[v] = "upsert" THEN txn[v] ELSE {}

JobTxn(v) == IF pc[v] = "save" THEN txn[v] ELSE {}

\* What a statement inside w's transaction reads: the committed rows, with
\* w's own writes in place of the rows they replace.
TxnView(table, own) == {r \in table : r.id \notin {o.id : o \in own}} \cup own

\* COMMIT: the written rows replace the committed ones.
Commit(table, own) == TxnView(table, own)

\* Raise without the rollback: the statements of the batch that had been
\* executed stay written, as if each had been committed on its own.
Raise_NoRollback(w, e) ==
    /\ metrics' = [metrics EXCEPT ![w].errors = Append(@, e)]
    /\ pc' = [pc EXCEPT ![w] = "except"]
    /\ jobs' = IF pc[w] = "save" THEN Commit(jobs, txn[w]) ELSE jobs
    /\ companies' = IF pc[w] = "upsert" THEN Commit(companies, txn[w]) ELSE companies
    /\ txn' = [txn EXCEPT ![w] = {}]
    /\ discovered' = [discovered EXCEPT ![w] = <<>>]
    /\ todo' = [todo EXCEPT ![w] = <<>>]
    /\ unique' = [unique EXCEPT ![w] = <<>>]
    /\ current_urls' = [current_urls EXCEPT ![w] = <<>>]
    /\ to_disable' = [to_disable EXCEPT ![w] = {}]
    /\ before' = [before EXCEPT ![w] = None]
    /\ UNCHANGED <<probe, passed, runs, clock, run_id, claimed, terminal, lastScrape>>

\* except Exception as e: metrics.errors.append(str(e)); an open transaction is
\* rolled back by its context manager and the locals of run_pipeline are gone.
Raise(w, e) ==
    /\ metrics' = [metrics EXCEPT ![w].errors = Append(@, e)]
    /\ pc' = [pc EXCEPT ![w] = "except"]
    /\ txn' = [txn EXCEPT ![w] = {}]
    /\ discovered' = [discovered EXCEPT ![w] = <<>>]
    /\ todo' = [todo EXCEPT ![w] = <<>>]
    /\ unique' = [unique EXCEPT ![w] = <<>>]
    /\ current_urls' = [current_urls EXCEPT ![w] = <<>>]
    /\ to_disable' = [to_disable EXCEPT ![w] = {}]
    /\ before' = [before EXCEPT ![w] = None]
    /\ UNCHANGED <<probe, passed, runs, companies, jobs, clock, run_id, claimed, terminal,
                   lastScrape>>

\* key = c.get("domain") or c["name"].lower()
CandidateKey(c) ==
    IF c.domain # <<>> THEN c.domain ELSE [i \in 1..Len(c.name) |-> ToLower(c.name[i])]

RECURSIVE DedupCandidatesFrom(_, _)
DedupCandidatesFrom(cs, seen) ==
    IF cs = <<>> THEN <<>>
    ELSE IF CandidateKey(Head(cs)) \in seen THEN DedupCandidatesFrom(Tail(cs), seen)
    ELSE <<Head(cs)>> \o DedupCandidatesFrom(Tail(cs), seen \cup {CandidateKey(Head(cs))})

\* discover_companies without "if key not in dedup": a later candidate of a key
\* replaces the kept one, in the kept one's place.
discover_companies_Overwrite(found) ==
    LET d == DedupCandidatesFrom(found, {})
        LastOf(c) == CHOOSE j \in 1..Len(found) :
                        /\ CandidateKey(found[j]) = CandidateKey(c)
                        /\ \A h \in (j + 1)..Len(found) :
                               CandidateKey(found[h]) # CandidateKey(c)
    IN  [i \in 1..Len(d) |-> found[LastOf(d[i])]]

\* discover_companies, given the candidates extracted from the engines' results.
discover_companies(found) == DedupCandidatesFrom(found, {})

\* run_pipeline step 1, up to the first statement of upsert_companies.
\* discover_companies catches every failure of an engine: it does not raise.
Discover(w, found) ==
    /\ pc[w] = "discover"
    /\ LET d == discover_companies(found) IN
        /\ discovered' = [discovered EXCEPT ![w] = d]
        /\ metrics' = [metrics EXCEPT
              ![w].companies_discovered = Len(d),
              ![w].companies_with_careers =
                  Cardinality({i \in 1..Len(d) : d[i].careers_url # None}),
              ![w].companies_scraped = 0]
        /\ pc' = [pc EXCEPT ![w] = IF d = <<>> THEN "load" ELSE "upsert"]
    /\ UNCHANGED <<probe, passed, runs, companies, jobs, clock, run_id, todo, unique, current_urls,
                   to_disable, txn, claimed, terminal, lastScrape, before>>

AllCompanyIds == {r.id : r \in companies} \cup UNION {{r.id : r \in CompanyTxn(v)} : v \in Workers}

\* UpsertCompanyRow with careers_url=EXCLUDED.careers_url, that is without COALESCE.
UpsertCompanyRow_Overwrite(view, c, id) ==
    LET payload ==
            IF c.careers_url # None THEN detect_endpoint(c.careers_url) ELSE NullPayload
        old == {r \in view : r.name = c.name}
    IN  IF old = {}
        THEN [id |-> id, name |-> c.name, domain |-> c.domain,
              careers_url |-> c.careers_url, careers_endpoint_payload |-> payload,
              is_active |-> TRUE, discovery_source |-> c.discovery_source]
        ELSE LET r == CHOOSE r \in old : TRUE IN
             [r EXCEPT !.domain = c.domain, !.careers_url = c.careers_url,
                       !.careers_endpoint_payload = payload]

\* INSERT INTO companies ... ON CONFLICT (name) DO UPDATE SET domain=EXCLUDED.domain,
\* careers_url=COALESCE(EXCLUDED.careers_url, companies.careers_url), ...
UpsertCompanyRow(view, c, id) ==
    LET payload ==
            IF c.careers_url # None THEN detect_endpoint(c.careers_url) ELSE NullPayload
        old == {r \in view : r.name = c.name}
    IN  IF old = {}
        THEN [id |-> id, name |-> c.name, domain |-> c.domain,
              careers_url |-> c.careers_url, careers_endpoint_payload |-> payload,
              is_active |-> TRUE, discovery_source |-> c.discovery_source]
        ELSE LET r == CHOOSE r \in old : TRUE IN
             [r EXCEPT
                !.domain = c.domain,
                !.careers_url = IF c.careers_url # None THEN c.careers_url ELSE @,
                !.careers_endpoint_payload = IF payload # NullPayload THEN payload ELSE @]

\* upsert_companies: one statement of the loop; the last one is followed by COMMIT.
\* The statement waits while another open transaction holds the row of that name.
UpsertStmt(w) ==
    /\ pc[w] = "upsert"
    /\ LET c == Head(discovered[w])
           row == UpsertCompanyRow(TxnView(companies, txn[w]), c, FreshId(AllCompanyIds))
           own == {o \in txn[w] : o.id # row.id} \cup {row}
       IN     /\ \A v \in Workers \ {w} : \A o \in CompanyTxn(v) : o.name # c.name
              /\ discovered' = [discovered EXCEPT ![w] = Tail(@)]
              /\ IF Len(discovered[w]) = 1
                 THEN /\ companies' = Commit(companies, own)
                      /\ txn' = [txn EXCEPT ![w] = {}]
                      /\ pc' = [pc EXCEPT ![w] = "load"]
                 ELSE /\ txn' = [txn EXCEPT ![w] = own]
                      /\ UNCHANGED <<companies, pc>>
              /\ UNCHANGED <<probe, passed, runs, jobs, clock, run_id, metrics, todo, unique,
                             current_urls, to_disable, claimed, terminal, lastScrape,
                             before>>

\* The loop goes to the next company, or leaves the for loop.
NextCompany(rest) == IF rest = <<>> THEN "finish" ELSE "scrape"

LoadLimit == 200

\* Company(id=..., careers_endpoint_payload=r[...] or {}, ...)
CompanyOf(r) ==
    [id |-> r.id, name |-> r.name, domain |-> r.domain, careers_url |-> r.careers_url,
     careers_endpoint_payload |-> r.careers_endpoint_payload]

\* SELECT ... FROM companies WHERE is_active=true LIMIT $1: the rows in any order.
ActiveSelections ==
    LET active == {r \in companies : r.is_active}
        n == IF Cardinality(active) < LoadLimit THEN Cardinality(active) ELSE LoadLimit
    IN  {s \in [1..n -> active] : \A i, j \in 1..n : s[i] = s[j] => i = j}

\* load_active_companies, then the head of the for loop.
LoadActive(w) ==
    /\ pc[w] = "load"
    /\ \E rows \in ActiveSelections :
          /\ todo' = [todo EXCEPT ![w] = [i \in 1..Len(rows) |-> CompanyOf(rows[i])]]
          /\ pc' = [pc EXCEPT ![w] = NextCompany(rows)]
    /\ UNCHANGED <<probe, passed, runs, companies, jobs, clock, run_id, metrics, discovered, unique,
                   current_urls, to_disable, txn, claimed, terminal, lastScrape, before>>

\* ScrapedJob(title=..., company=company.name, company_id=company.id, ...)
ScrapedJob(p, company) ==
    [title |-> p.title, company |-> company.name, company_id |-> company.id,
     location |-> p.location, application_url |-> p.application_url]

\* scrape_company returning the listed postings although the attempt raised.
scrape_company_Partial(company, listed, raised) ==
    IF company.careers_url = None THEN <<>>
    ELSE [i \in 1..Len(listed) |-> ScrapedJob(listed[i], company)]

\* scrape_company: [] without a careers_url and when the attempt raises
\* ("except Exception" around _scrape_api / _scrape_web), else the postings the
\* source lists.
scrape_company(company, listed, raised) ==
    IF company.careers_url = None THEN <<>>
    ELSE IF raised THEN <<>>
    ELSE [i \in 1..Len(listed) |-> ScrapedJob(listed[i], company)]

\* [j.application_url for j in unique]
UrlsOf(js) == [i \in 1..Len(js) |-> js[i].application_url]

\* invalidate_missing: "if not current_urls: return"; else its SELECT is next.
AfterSave(urls, rest) == IF urls = <<>> THEN NextCompany(rest) ELSE "invalidate"

\* AfterScrape without the two empty-batch guards.
AfterScrape_Unguarded(js, uniq, rest) == IF uniq # <<>> THEN "save" ELSE "invalidate"

\* The await the loop body reaches after scrape_company returned js:
\* "if not jobs: continue", save_jobs' "if not jobs: return", then invalidate_missing.
AfterScrape(js, uniq, rest) ==
    IF js = <<>> THEN NextCompany(rest)
    ELSE IF uniq # <<>> THEN "save"
    ELSE AfterSave(UrlsOf(uniq), rest)

\* The loop body is over for the head of todo.
EndCompany(w) ==
    /\ todo' = [todo EXCEPT ![w] = Tail(@)]
    /\ unique' = [unique EXCEPT ![w] = <<>>]
    /\ current_urls' = [current_urls EXCEPT ![w] = <<>>]
    /\ to_disable' = [to_disable EXCEPT ![w] = {}]

\* One iteration of the for loop of run_pipeline, up to its first store statement.
ScrapeCompany(w, listed) ==
    /\ pc[w] = "scrape"
    /\ \E raised \in BOOLEAN :
       LET company == Head(todo[w])
           js == scrape_company(company, listed, raised)
           uniq == deduplicate(js)
           next == AfterScrape(js, uniq, Tail(todo[w]))
       IN  /\ company.careers_url = None => listed = <<>> /\ ~raised
           /\ pc' = [pc EXCEPT ![w] = next]
           /\ metrics' = [metrics EXCEPT
                 ![w].companies_scraped = IF js = <<>> THEN @ ELSE @ + 1,
                 ![w].jobs_scraped = @ + Len(js)]
           /\ lastScrape' =
                 IF js = <<>> THEN lastScrape
                 ELSE [lastScrape EXCEPT ![company.id] = Range(UrlsOf(js))]
           /\ before' = [before EXCEPT ![w] = Some(
                 [jobs |-> jobs, metrics |-> metrics[w], company |-> company.id,
                  scraped |-> Len(js), batch |-> uniq, raised |-> raised,
                  rest |-> Tail(todo[w]), last |-> FALSE])]
           /\ passed' = [passed EXCEPT
                 ![w].nonempty = IF Len(js) > 0 THEN @ + 1 ELSE @,
                 ![w].unique = IF next = "save" THEN @ + Len(uniq) ELSE @]
           /\ IF next \in {"save", "invalidate"}
              THEN /\ unique' = [unique EXCEPT ![w] = uniq]
                   /\ current_urls' = [current_urls EXCEPT ![w] = UrlsOf(uniq)]
                   /\ UNCHANGED <<todo, to_disable>>
              ELSE EndCompany(w)
    /\ UNCHANGED <<probe, runs, companies, jobs, clock, run_id, discovered, txn, claimed,
                   terminal>>

AllJobIds == {r.id : r \in jobs} \cup UNION {{r.id : r \in JobTxn(v)} : v \in Workers}

\* UpsertJobRow without "is_available=true" in DO UPDATE SET.
UpsertJobRow_KeepAvailability(view, j, id) ==
    LET old == {r \in view : r.application_url = j.application_url} IN
    IF old = {}
    THEN [id |-> id, title |-> j.title, company_id |-> j.company_id,
          company |-> j.company, application_url |-> j.application_url,
          is_available |-> TRUE]
    ELSE LET r == CHOOSE r \in old : TRUE IN
         [r EXCEPT !.title = j.title]

\* INSERT INTO jobs (..., is_available) VALUES (..., true)
\* ON CONFLICT (application_url) DO UPDATE SET title=EXCLUDED.title, ...,
\* is_available=true.  title stands for the updated columns (title, location,
\* description, requirements, experience_level).
UpsertJobRow(view, j, id) ==
    LET old == {r \in view : r.application_url = j.application_url} IN
    IF old = {}
    THEN [id |-> id, title |-> j.title, company_id |-> j.company_id,
          company |-> j.company, application_url |-> j.application_url,
          is_available |-> TRUE]
    ELSE LET r == CHOOSE r \in old : TRUE IN
         [r EXCEPT !.title = j.title, !.is_available = TRUE]

\* Inserted reporting every write as an insert.
Inserted_Always(view, j) == TRUE

\* RETURNING xmax = 0 as inserted
Inserted(view, j) == \A r \in view : r.application_url # j.application_url

\* CountWrite without the else branch: an update is not counted.
CountWrite_InsertOnly(m, inserted) ==
    IF inserted THEN [m EXCEPT !.jobs_inserted = @ + 1] ELSE m

\* if res and res["inserted"]: metrics.jobs_inserted += 1 else: metrics.jobs_updated += 1
CountWrite(m, inserted) ==
    IF inserted THEN [m EXCEPT !.jobs_inserted = @ + 1]
    ELSE [m EXCEPT !.jobs_updated = @ + 1]

\* History: the save_jobs of worker w has committed, after those of the other
\* workers that are in the loop body for the same company.
CommittedLast(w) ==
    [v \in Workers |->
        IF before[v] = None \/ before[w] = None THEN before[v]
        ELSE IF v = w THEN Some([before[v][1] EXCEPT !.last = TRUE])
        ELSE IF before[v][1].company = before[w][1].company
             THEN Some([before[v][1] EXCEPT !.last = FALSE])
        ELSE before[v]]

\* save_jobs: one statement of the loop; the last one is followed by COMMIT.
\* The statement waits while another open transaction holds
\* a row of that application_url.
SaveStmt(w) ==
    /\ pc[w] = "save"
    /\ LET j == Head(unique[w])
           view == TxnView(jobs, txn[w])
           row == UpsertJobRow(view, j, FreshId(AllJobIds))
           own == {o \in txn[w] : o.id # row.id} \cup {row}
           free == \A v \in Workers \ {w} :
                      \A o \in JobTxn(v) : o.application_url # j.application_url
           last == Len(unique[w]) = 1
       IN     /\ free
              /\ metrics' = [metrics EXCEPT ![w] = CountWrite(@, Inserted(view, j))]
              /\ unique' = [unique EXCEPT ![w] = Tail(@)]
              /\ IF last
                 THEN /\ jobs' = Commit(jobs, own)
                      /\ before' = CommittedLast(w)
                      /\ passed' = [passed EXCEPT
                            ![w].committed = @ + Len(before[w][1].batch)]
                      /\ txn' = [txn EXCEPT ![w] = {}]
                      /\ LET next == AfterSave(current_urls[w], Tail(todo[w])) IN
                          /\ pc' = [pc EXCEPT ![w] = next]
                          /\ IF next = "invalidate"
                             THEN UNCHANGED <<todo, current_urls, to_disable>>
                             ELSE /\ todo' = [todo EXCEPT ![w] = Tail(@)]
                                  /\ current_urls' = [current_urls EXCEPT ![w] = <<>>]
                                  /\ UNCHANGED to_disable
                 ELSE /\ txn' = [txn EXCEPT ![w] = own]
                      /\ UNCHANGED <<jobs, pc, todo, current_urls, to_disable, before,
                                     passed>>
              /\ UNCHANGED <<probe, runs, companies, clock, run_id, discovered, claimed,
                             terminal, lastScrape>>

\* ToDisable without "company_id=$1" in the SELECT.
ToDisable_AnyCompany(table, company_id, urls) ==
    {r.id : r \in {x \in table : /\ x.is_available
                                 /\ x.application_url \notin Range(urls)}}

\* ToDisable without the is_available=true filter and with the test inverted.
ToDisable_Inverted(table, company_id, urls) ==
    {r.id : r \in {x \in table : /\ x.company_id = company_id
                                 /\ x.application_url \in Range(urls)}}

\* to_disable = [r["id"] for r in res if r["application_url"] not in current_urls]
\* over   SELECT id, application_url FROM jobs WHERE company_id=$1 AND is_available=true
ToDisable(table, company_id, urls) ==
    {r.id : r \in {x \in table : /\ x.company_id = company_id
                                 /\ x.is_available
                                 /\ x.application_url \notin Range(urls)}}

\* invalidate_missing, the SELECT; "if to_disable:" decides whether an UPDATE follows.
InvalidateSelect(w) ==
    /\ pc[w] = "invalidate"
    /\    LET ids == ToDisable(jobs, Head(todo[w]).id, current_urls[w]) IN
            /\ IF ids = {}
               THEN /\ EndCompany(w)
                    /\ pc' = [pc EXCEPT ![w] = NextCompany(Tail(todo[w]))]
               ELSE /\ to_disable' = [to_disable EXCEPT ![w] = ids]
                    /\ pc' = [pc EXCEPT ![w] = "inv_update"]
                    /\ UNCHANGED <<todo, unique, current_urls>>
            /\ UNCHANGED <<probe, passed, runs, companies, jobs, clock, run_id, metrics, discovered,
                           txn, claimed, terminal, lastScrape, before>>

\* UPDATE jobs SET is_available=false, updated_at=NOW() WHERE id = ANY($1::uuid[])
Disable(table, ids) ==
    {IF r.id \in ids THEN [r EXCEPT !.is_available = FALSE] ELSE r : r \in table}

\* invalidate_missing, the UPDATE (it waits for rows an open transaction holds)
\* and metrics.jobs_marked_unavailable += len(to_disable).
InvalidateUpdate(w) ==
    /\ pc[w] = "inv_update"
    /\    /\ \A v \in Workers \ {w} : \A o \in JobTxn(v) : o.id \notin to_disable[w]
          /\ jobs' = Disable(jobs, to_disable[w])
          /\ metrics' = [metrics EXCEPT
                ![w].jobs_marked_unavailable = @ + Cardinality(to_disable[w])]
          /\ EndCompany(w)
          /\ pc' = [pc EXCEPT ![w] = NextCompany(Tail(todo[w]))]
          /\ UNCHANGED <<probe, passed, runs, companies, clock, run_id, discovered, txn, claimed,
                         terminal, lastScrape, before>>

\* UPDATE scraping_runs SET status='success', finished_at=NOW(), details=$2,
\* companies_scraped=$3, ..., jobs_marked_unavailable=$7 WHERE id=$1
MarkSuccess(rs, r, m) ==
    [rs EXCEPT ![r].status = "success", ![r].finished_at = "NOW",
               ![r].details = Some(m),
               ![r].companies_scraped = Some(m.companies_scraped),
               ![r].jobs_scraped = Some(m.jobs_scraped),
               ![r].jobs_inserted = Some(m.jobs_inserted),
               ![r].jobs_updated = Some(m.jobs_updated),
               ![r].jobs_marked_unavailable = Some(m.jobs_marked_unavailable)]

\* UPDATE scraping_runs SET status='failed', finished_at=NOW(), details=$2 WHERE id=$1
MarkFailed(rs, r, m) ==
    [rs EXCEPT ![r].status = "failed", ![r].finished_at = "NOW",
               ![r].details = Some(m)]

\* run_pipeline after the for loop: the success update; run_pipeline returns.
FinishSuccess(w) ==
    /\ pc[w] = "finish"
    /\    /\ runs' = MarkSuccess(runs, run_id[w], metrics[w])
          /\ terminal' = [terminal EXCEPT ![w] = @ + 1]
          /\ pc' = [pc EXCEPT ![w] = "sleep"]
          /\ before' = [before EXCEPT ![w] = None]
          /\ UNCHANGED <<probe, passed, companies, jobs, clock, run_id, metrics, locals, claimed,
                         lastScrape>>

\* run_pipeline's except block: the failed update; run_pipeline returns.
ExceptUpdate(w) ==
    /\ pc[w] = "except"
    /\    /\ runs' = MarkFailed(runs, run_id[w], metrics[w])
          /\ terminal' = [terminal EXCEPT ![w] = @ + 1]
          /\ pc' = [pc EXCEPT ![w] = "sleep"]
          /\ UNCHANGED <<probe, passed, companies, jobs, clock, run_id, metrics, locals, claimed,
                         lastScrape, before>>

\* await asyncio.sleep(settings.poll_interval_sec), then the next iteration.
Sleep(w) ==
    /\ pc[w] = "sleep"
    /\ pc' = [pc EXCEPT ![w] = "poll"]
    /\ metrics' = [metrics EXCEPT ![w] = RunMetrics]
    /\ terminal' = [terminal EXCEPT ![w] = 0]
    /\ passed' = [passed EXCEPT ![w] = NothingPassed]
    /\ UNCHANGED <<probe, runs, companies, jobs, clock, run_id, locals, claimed, lastScrape,
                   before>>

\* ------------------------------------------------------------------ faults
\* The store statement worker w awaits raises e instead of returning.
\*  - in claim_next_run or in the except block of run_pipeline nothing catches
\*    it: it leaves background_worker;
\*  - elsewhere in run_pipeline its "except Exception" catches it.
Fault(w, e) ==
    \/ /\ pc[w] \in {"poll", "claim_update", "except"}
       /\ Die(w)
    \/ /\ pc[w] \in {"upsert", "load", "save", "invalidate", "inv_update", "finish"}
       /\ Raise(w, e)

\* The COMMIT that ends save_jobs' transaction raises e: the last statement had
\* returned and was counted, the batch is rolled back.
CommitFault(w, e) ==
    /\ pc[w] = "save"
    /\ Len(unique[w]) = 1
    /\ \A v \in Workers \ {w} :
          \A o \in JobTxn(v) : o.application_url # Head(unique[w]).application_url
    /\ metrics' = [metrics EXCEPT
          ![w] = [CountWrite(@, Inserted(TxnView(jobs, txn[w]), Head(unique[w])))
                     EXCEPT !.errors = Append(@, e)]]
    /\ pc' = [pc EXCEPT ![w] = "except"]
    /\ txn' = [txn EXCEPT ![w] = {}]
    /\ todo' = [todo EXCEPT ![w] = <<>>]
    /\ unique' = [unique EXCEPT ![w] = <<>>]
    /\ current_urls' = [current_urls EXCEPT ![w] = <<>>]
    /\ before' = [before EXCEPT ![w] = None]
    /\ UNCHANGED <<probe, passed, runs, companies, jobs, clock, run_id, discovered, to_disable,
                   claimed, terminal, lastScrape>>

\* ---------------------------------------------------------- specifications
\* One step of a worker's background_worker coroutine, given what the search
\* engines can find and what a careers source can list.
Step(w, findings, listings) ==
    \/ ClaimSelect(w)
    \/ ClaimUpdate(w)
    \/ \E found \in findings : Discover(w, found)
    \/ UpsertStmt(w)
    \/ LoadActive(w)
    \/ \E listed \in listings : ScrapeCompany(w, listed)
    \/ SaveStmt(w)
    \/ InvalidateSelect(w)
    \/ InvalidateUpdate(w)
    \/ FinishSuccess(w)
    \/ ExceptUpdate(w)
    \/ Sleep(w)

StoreErrors == {"store unavailable"}

Faults(w) == \E e \in StoreErrors : Fault(w, e) \/ CommitFault(w, e)

\* Several worker processes on a store that can fail; company A lists at most one
\* posting, at X or at Y.
Next ==
    \/ Trigger
    \/ \E w \in Workers :
          \/ Step(w, {<<CandA1>>}, SeqsUpTo({Posting(<<"a">>, u) : u \in Urls}, 1))
          \/ Faults(w)

Spec == Init /\ [][Next]_vars

\* One worker process on a store that can fail; company A lists any postings.
NextSeq ==
    \/ Trigger
    \/ Step(1, SeqsUpTo({CandA1}, MaxDiscovered), SeqsUpTo(AllPostings, MaxBatch))
    \/ Faults(1)

SpecSeq == Init /\ [][NextSeq]_vars

\* One worker process on a store that can fail; any candidates are discovered.
NextCompanies ==
    \/ Trigger
    \/ Step(1, SeqsUpTo(AllCandidates, MaxDiscovered),
            SeqsUpTo({Posting(<<"a">>, u) : u \in Urls}, 1))
    \/ Faults(1)

SpecCompanies == Init /\ [][NextCompanies]_vars

\* One worker process on a store that can fail; company A is discovered with and
\* without its careers_url and lists any postings: both batches have several
\* elements.
NextBatches ==
    \/ Trigger
    \/ Step(1, SeqsUpTo({CandA1, CandA2}, MaxDiscovered), SeqsUpTo(AllPostings, MaxBatch))
    \/ Faults(1)

SpecBatches == Init /\ [][NextBatches]_vars

\* What a source lists in the runs whose counters are compared: nothing, one
\* posting, or two postings of one key at two URLs.
CountedListings ==
    {<<>>, <<Posting(<<"a">>, "X")>>, <<Posting(<<"a">>, "Y")>>,
     <<Posting(<<"a">>, "X"), Posting(<<"a">>, "Y")>>}

\* One worker process on a store that can fail; companies A and B are discovered
\* and both can list the same postings.
NextCounters ==
    \/ Trigger
    \/ Step(1, {<<CandA1, CandB1>>}, CountedListings)
    \/ Faults(1)

SpecCounters == Init /\ [][NextCounters]_vars

\* ------------------------------------------------------------ pure functions
\* The characters of the titles job_key is called with: a letter in both cases,
\* white space and punctuation.
KeyChars == {"a", "A", " ", "."}

Texts == SeqsUpTo(KeyChars, MaxText)

\* A scraped job of company A with title t.
JobTitled(t) == [title |-> t, company |-> <<"A">>, location |-> <<"a">>]

\* job_key is about to be called on two jobs that differ in their titles.
InitKey ==
    /\ InitStore
    /\ probe \in {Some([fn |-> "job_key", a |-> JobTitled(s), b |-> JobTitled(t),
                        out |-> None]) : s \in Texts, t \in Texts}

\* k = job_key(j), for both jobs.
ApplyJobKey ==
    /\ probe # None
    /\ probe[1].fn = "job_key"
    /\ probe[1].out = None
    /\ probe' = Some([probe[1] EXCEPT
                        !.out = Some(<<job_key(probe[1].a), job_key(probe[1].b)>>)])
    /\ UNCHANGED store

SpecKey == InitKey /\ [][ApplyJobKey]_vars

\* The scraped jobs deduplicate is called with: titles that differ in case only
\* have one key, and jobs of one key can differ in their URL.
DedupTitles == {<<"a">>, <<"A">>, <<"b">>}

ScrapedJobs ==
    {[title |-> t, company |-> <<"A">>, location |-> <<"a">>, application_url |-> u] :
        t \in DedupTitles, u \in Urls}

\* deduplicate is about to be called on a list of scraped jobs.
InitDedup ==
    /\ InitStore
    /\ probe \in {Some([fn |-> "deduplicate", in |-> js, out |-> None, twice |-> None]) :
                     js \in SeqsUpTo(ScrapedJobs, MaxDedup)}

\* unique = deduplicate(jobs), and deduplicate(unique).
ApplyDeduplicate ==
    /\ probe # None
    /\ probe[1].fn = "deduplicate"
    /\ probe[1].out = None
    /\ probe' = Some([probe[1] EXCEPT
                        !.out = Some(deduplicate(probe[1].in)),
                        !.twice = Some(deduplicate(deduplicate(probe[1].in)))])
    /\ UNCHANGED store

SpecDedup == InitDedup /\ [][ApplyDeduplicate]_vars

\* DEFAULT_SCRAPING_CONFIG["experienceLevelMapping"]: a dict, which keeps the
\* order of its entries; an entry is <<keyword, level>>.
experienceLevelMapping ==
    <<<<<<"j", "u", "n", "i", "o", "r">>, "entry">>,
       <<<<"e", "n", "t", "r", "y">>, "entry">>,
       <<<<"g", "r", "a", "d", "u", "a", "t", "e">>, "entry">>,
       <<<<"i", "n", "t", "e", "r", "n">>, "entry">>,
       <<<<"m", "i", "d", "-", "l", "e", "v", "e", "l">>, "mid">>,
       <<<<"m", "i", "d">>, "mid">>,
       <<<<"i", "n", "t", "e", "r", "m", "e", "d", "i", "a", "t", "e">>, "mid">>,
       <<<<"s", "e", "n", "i", "o", "r">>, "senior">>,
       <<<<"s", "r">>, "senior">>,
       <<<<"l", "e", "a", "d">>, "lead">>,
       <<<<"p", "r", "i", "n", "c", "i", "p", "a", "l">>, "lead">>,
       <<<<"s", "t", "a", "f", "f">>, "lead">>,
       <<<<"d", "i", "r", "e", "c", "t", "o", "r">>, "lead">>>>

\* k in text
Contains(text, k) ==
    \E i \in 0..(Len(text) - Len(k)) : SubSeq(text, i + 1, i + Len(k)) = k

\* for k, v in mapping.items(): if k in text: return v
RECURSIVE MappingLevel(_, _)
MappingLevel(mapping, text) ==
    IF mapping = <<>> THEN None
    ELSE IF Contains(text, Head(mapping)[1]) THEN Some(Head(mapping)[2])
    ELSE MappingLevel(Tail(mapping), text)

EntryWords ==
    {<<"j", "u", "n", "i", "o", "r">>,
     <<"e", "n", "t", "r", "y">>,
     <<"g", "r", "a", "d", "u", "a", "t", "e">>}

SeniorWords ==
    {<<"s", "e", "n", "i", "o", "r">>,
     <<"s", "r", ".">>}

LeadWords ==
    {<<"l", "e", "a", "d">>,
     <<"p", "r", "i", "n", "c", "i", "p", "a", "l">>,
     <<"s", "t", "a", "f", "f">>}

\* any(w in text for w in words)
AnyIn(words, text) == \E w \in words : Contains(text, w)

\* text = f"{title} {desc}".lower()
LevelText(title, desc) ==
    LET joined == title \o <<" ">> \o desc
    IN  [i \in 1..Len(joined) |-> ToLower(joined[i])]

\* _determine_level with the built-in keyword sets tested before the mapping.
determine_level_BuiltinFirst(title, desc, mapping) ==
    LET text == LevelText(title, desc)
    IN  IF AnyIn(EntryWords, text) THEN "entry"
        ELSE IF AnyIn(SeniorWords, text) THEN "senior"
        ELSE IF AnyIn(LeadWords, text) THEN "lead"
        ELSE IF MappingLevel(mapping, text) # None THEN MappingLevel(mapping, text)[1]
        ELSE "mid"

\* JobScraper._determine_level
determine_level(title, desc, mapping) ==
    LET text == LevelText(title, desc)
    IN  IF MappingLevel(mapping, text) # None THEN MappingLevel(mapping, text)[1]
        ELSE IF AnyIn(EntryWords, text) THEN "entry"
        ELSE IF AnyIn(SeniorWords, text) THEN "senior"
        ELSE IF AnyIn(LeadWords, text) THEN "lead"
        ELSE "mid"

\* The words of the titles and descriptions _determine_level is called with.
LevelWords ==
    {<<"S", "e", "n", "i", "o", "r">>,
     <<"e", "n", "t", "r", "y">>,
     <<"S", "r", ".">>,
     <<"L", "e", "a", "d">>,
     <<"i", "n", "t", "e", "r", "n">>,
     <<"d", "e", "v">>}

RECURSIVE JoinWords(_)
JoinWords(ws) ==
    IF ws = <<>> THEN <<>>
    ELSE IF Len(ws) = 1 THEN ws[1]
    ELSE ws[1] \o <<" ">> \o JoinWords(Tail(ws))

LevelStrings == {JoinWords(ws) : ws \in SeqsUpTo(LevelWords, MaxWords)}

\* The mappings _determine_level is called with: the default one, one of a
\* company's scraping_config with the entries in another order, and an empty one.
LevelMappings ==
    {experienceLevelMapping,
     <<<<<<"s", "e", "n", "i", "o", "r">>, "senior">>, <<<<"e", "n", "t", "r", "y">>, "entry">>>>,
     <<>>}

\* _determine_level is about to be called.
InitLevel ==
    /\ InitStore
    /\ probe \in {Some([fn |-> "_determine_level", title |-> t, desc |-> d, mapping |-> m,
                        out |-> None, again |-> None]) :
                     t \in LevelStrings, d \in LevelStrings, m \in LevelMappings}

\* level = self._determine_level(title, desc, mapping), called twice.
ApplyDetermineLevel ==
    /\ probe # None
    /\ probe[1].fn = "_determine_level"
    /\ probe[1].out = None
    /\ probe' = Some([probe[1] EXCEPT
                        !.out = Some(determine_level(probe[1].title, probe[1].desc,
                                                     probe[1].mapping)),
                        !.again = Some(determine_level(probe[1].title, probe[1].desc,
                                                       probe[1].mapping))])
    /\ UNCHANGED store

SpecLevel == InitLevel /\ [][ApplyDetermineLevel]_vars

\* What _extract_company can return: candidates of one domain that differ in
\* name and careers_url, and candidates without a domain (a link with no host)
\* whose names differ in case only.
FoundCandidates ==
    {CandA1, CandA2,
     [name |-> <<"B">>, domain |-> <<"a">>, careers_url |-> None,
      discovery_source |-> "search_engine"],
     [name |-> <<"A">>, domain |-> <<>>, careers_url |-> None,
      discovery_source |-> "search_engine"],
     [name |-> <<"a">>, domain |-> <<>>, careers_url |-> <<"a.com", "careers">>,
      discovery_source |-> "search_engine"]}

\* The engines' results have been extracted; the deduplication is about to run.
InitDiscover ==
    /\ InitStore
    /\ probe \in {Some([fn |-> "discover_companies", in |-> cs, out |-> None]) :
                     cs \in SeqsUpTo(FoundCandidates, MaxFound)}

\* dedup = {}; for c in companies: ...; return list(dedup.values())
ApplyDiscover ==
    /\ probe # None
    /\ probe[1].fn = "discover_companies"
    /\ probe[1].out = None
    /\ probe' = Some([probe[1] EXCEPT !.out = Some(discover_companies(probe[1].in))])
    /\ UNCHANGED store

SpecDiscover == InitDiscover /\ [][ApplyDiscover]_vars

\* "finally: await scraper.close()" raises e: closing the browser failed.  It is
\* no store statement; "except Exception" of run_pipeline catches it.
CloseFault(w, e) ==
    /\ pc[w] = "finish"
    /\ Raise(w, e)

CloseErrors == {"browser closed"}

\* What one worker can do when every store and network call returns.
Work(w) == Step(w, {<<CandA1>>}, SeqsUpTo({Posting(<<"a">>, u) : u \in Urls}, 1))

\* The worker processes that are running in SpecLive.
LiveWorkers == {1}

\* One worker process on a store whose every call returns; the event loop
\* resumes the coroutine when the call it awaits has returned.
NextLive ==
    \/ Trigger
    \/ \E w \in LiveWorkers :
          \/ Work(w)
          \/ \E e \in CloseErrors : CloseFault(w, e)

SpecLive == Init /\ [][NextLive]_vars /\ \A w \in LiveWorkers : WF_vars(Work(w))

\* "jobs = await scraper.scrape_company(company)" never returns: the source keeps
\* the request open.  Nothing bounds the await: run_pipeline has no timeout
\* around it and settings.run_timeout_sec is read nowhere.
Hang(w) ==
    /\ pc[w] = "scrape"
    /\ pc' = [pc EXCEPT ![w] = "hung"]
    /\ UNCHANGED <<probe, passed, runs, companies, jobs, clock, run_id, metrics, locals, claimed,
                   terminal, lastScrape, before>>

\* SpecLive, with scrapes that may never return.
NextHang ==
    \/ Trigger
    \/ \E w \in LiveWorkers :
          \/ Work(w)
          \/ \E e \in CloseErrors : CloseFault(w, e)
          \/ Hang(w)

SpecHang == Init /\ [][NextHang]_vars /\ \A w \in LiveWorkers : WF_vars(Work(w))

\* ------------------------------------------------------------------ claims
\* Worker w is inside run_pipeline.
InPipeline(w) ==
    pc[w] \in {"discover", "upsert", "load", "scrape", "save", "invalidate",
               "inv_update", "finish", "except"}

\* run_pipeline of worker w has just returned.
Returned(w) == pc[w] = "sleep" /\ run_id[w] # NoRun

\* run_pipeline of worker w raised out of its except block.
Escaped(w) == pc[w] = "dead" /\ metrics[w].errors # <<>>

\* Worker w has just completed the loop body for one company.
StepDone(w) == pc[w] \in {"scrape", "finish"} /\ before[w] # None

\* C1: claiming is exclusive: no run id is returned by more than one
\* claim_next_run call, and no two workers are in run_pipeline for the same run.
C1_ExclusiveClaim ==
    /\ \A r \in RunIds : claimed[r] <= 1
    /\ \A v, w \in Workers :
          v # w /\ InPipeline(v) /\ InPipeline(w) => run_id[v] # run_id[w]

\* C4: a run's status only moves queued -> running, running -> success and
\* running -> failed; a terminal status is never changed.
C4_RunLifecycle ==
    [][\A r \in DOMAIN runs :
          runs'[r].status # runs[r].status =>
              <<runs[r].status, runs'[r].status>> \in
                  {<<"queued", "running">>, <<"running", "success">>,
                   <<"running", "failed">>}]_vars

\* C8: when a step of run_pipeline raised, the run ends with status failed and
\* its details hold the metrics accumulated before the failure, the error
\* message in errors included.
C8_FailureRecorded ==
    \A w \in Workers :
        (Returned(w) \/ Escaped(w)) /\ metrics[w].errors # <<>> =>
            /\ runs[run_id[w]].status = "failed"
            /\ runs[run_id[w]].details = Some(metrics[w])

\* C9: a run_pipeline that has ended wrote exactly one terminal status update.
C9_OneTerminalUpdate ==
    \A w \in Workers : Returned(w) \/ Escaped(w) => terminal[w] = 1

\* C10: a failed pipeline never ends the worker: after a step of run_pipeline
\* raised, background_worker is still running.
C10_WorkerSurvives ==
    \A w \in Workers : metrics[w].errors # <<>> => pc[w] # "dead"

\* What worker w recorded when the loop body it completed began.
Snap(w) == before[w][1]

\* The rows of company c in a jobs table.
JobsOf(table, c) == {r \in table : r.company_id = c}

\* The URLs of the available rows of company c in a jobs table.
AvailableUrls(table, c) == {r.application_url : r \in {x \in JobsOf(table, c) : x.is_available}}

BatchUrls(b) == Range(UrlsOf(b.batch))

\* C2: a company step whose scrape returned zero jobs leaves every persisted job
\* of the company as it was and does not increment jobs_marked_unavailable.
C2_NoInvalidationOnEmptyScrape ==
    \A w \in Workers :
        StepDone(w) /\ Snap(w).scraped = 0 =>
            /\ JobsOf(jobs, Snap(w).company) = JobsOf(Snap(w).jobs, Snap(w).company)
            /\ metrics[w].jobs_marked_unavailable = Snap(w).metrics.jobs_marked_unavailable

\* An empty scrape of a company that had available persisted jobs was processed.
C2_Witness ==
    \E w \in Workers :
        /\ StepDone(w)
        /\ Snap(w).scraped = 0
        /\ AvailableUrls(Snap(w).jobs, Snap(w).company) # {}

\* C3: after a completed company step there is at most one row per
\* application_url, and a row is available iff its URL was among the postings
\* of the latest non-empty scrape of the company that owns it.
C3_AvailabilityInvariant ==
    (\E w \in Workers : StepDone(w)) =>
        /\ \A r1, r2 \in jobs : r1.application_url = r2.application_url => r1 = r2
        /\ \A r \in jobs : r.is_available <=> r.application_url \in lastScrape[r.company_id]

\* Every job of the batch was persisted before with the same fields.
Replayed(b) ==
    /\ b.batch # <<>>
    /\ \A j \in Range(b.batch) :
          \E r \in b.jobs : /\ r.application_url = j.application_url
                            /\ r.title = j.title
                            /\ r.company_id = j.company_id

\* No URL of the batch had a row, and the batch holds no URL twice.
FirstSave(b) ==
    /\ b.batch # <<>>
    /\ Cardinality(BatchUrls(b)) = Len(b.batch)
    /\ \A r \in b.jobs : r.application_url \notin BatchUrls(b)

\* C5: after save_jobs every URL of the batch has exactly one row, which is
\* available; a first save counts each job in jobs_inserted only, a replay of
\* persisted jobs counts each in jobs_updated and leaves jobs_inserted unchanged.
C5_UpsertIdempotent ==
    \A w \in Workers :
        StepDone(w) /\ Snap(w).scraped > 0 =>
            LET b == Snap(w)
                inserted == metrics[w].jobs_inserted - b.metrics.jobs_inserted
                updated == metrics[w].jobs_updated - b.metrics.jobs_updated
            IN  /\ \A u \in BatchUrls(b) :
                      /\ Cardinality({r \in jobs : r.application_url = u}) = 1
                      /\ \A r \in jobs : r.application_url = u => r.is_available
                /\ FirstSave(b) => inserted = Len(b.batch) /\ updated = 0
                /\ Replayed(b) => inserted = 0 /\ updated = Len(b.batch)

\* A batch of already persisted jobs was saved again.
C5_Witness == \E w \in Workers : StepDone(w) /\ Snap(w).scraped > 0 /\ Replayed(Snap(w))

\* C6: with P the available URLs of the company before the step and B the URLs
\* of its non-empty batch, the step turns exactly the rows of P \ B unavailable,
\* adds |P \ B| to jobs_marked_unavailable, and counts the jobs whose URL had a
\* row (those of P intersect B among them) in jobs_updated, not in jobs_inserted.
C6_ExactDiff ==
    \A w \in Workers :
        StepDone(w) /\ Snap(w).scraped > 0 =>
            LET b == Snap(w)
                P == AvailableUrls(b.jobs, b.company)
                B == BatchUrls(b)
                known == {r.application_url : r \in b.jobs}
            IN  /\ \A r \in b.jobs :
                      \E n \in jobs :
                          /\ n.id = r.id
                          /\ n.is_available =
                                IF r.application_url \in B THEN TRUE
                                ELSE IF r.application_url \in P THEN FALSE
                                ELSE r.is_available
                /\ AvailableUrls(jobs, b.company) \cap P = P \cap B
                /\ metrics[w].jobs_marked_unavailable =
                      b.metrics.jobs_marked_unavailable + Cardinality(P \ B)
                /\ metrics[w].jobs_inserted =
                      b.metrics.jobs_inserted + Cardinality(B \ known)
                /\ metrics[w].jobs_updated =
                      b.metrics.jobs_updated + Len(b.batch) - Cardinality(B \ known)

\* A batch that kept one available URL and dropped another was processed.
C6_Witness ==
    \E w \in Workers :
        /\ StepDone(w)
        /\ Snap(w).scraped > 0
        /\ AvailableUrls(Snap(w).jobs, Snap(w).company) \ BatchUrls(Snap(w)) # {}
        /\ AvailableUrls(Snap(w).jobs, Snap(w).company) \cap BatchUrls(Snap(w)) # {}

\* Worker w executes one statement of upsert_companies in this step.
UpsertStep(w) == pc[w] = "upsert" /\ pc'[w] # "except" /\ discovered'[w] # discovered[w]

\* C7: an upsert leaves exactly one row of the candidate's name; a candidate
\* without careers_url leaves a stored careers_url and endpoint payload as they
\* were and overwrites the domain.
C7_CompanyUpsertMonotonic ==
    [][/\ \A r1, r2 \in companies' : r1.name = r2.name => r1 = r2
       /\ \A w \in Workers :
             UpsertStep(w) =>
                 LET c == Head(discovered[w])
                     old == {r \in TxnView(companies, txn[w]) : r.name = c.name}
                     new == {r \in TxnView(companies', txn'[w]) : r.name = c.name}
                 IN  /\ Cardinality(new) = 1
                     /\ \A r \in old : \A n \in new :
                           c.careers_url = None /\ r.careers_url # None =>
                               /\ n.careers_url = r.careers_url
                               /\ n.careers_endpoint_payload = r.careers_endpoint_payload
                               /\ n.domain = c.domain]_vars

\* A company stored with a careers_url was upserted again without one.
C7_Witness ==
    \E r \in companies :
        /\ r.name = CandA2.name
        /\ r.domain = CandA2.domain
        /\ r.careers_url = CandA1.careers_url

\* claim_next_run of worker w returns a run id in this step.
ClaimReturns(w) == pc[w] = "claim_update" /\ pc'[w] = "discover"

\* C11: a run whose status is failed or success is never returned by
\* claim_next_run again, so that run_pipeline is not executed for it a second time.
C11_NoRetry ==
    [][\A w \in Workers :
          ClaimReturns(w) => runs[run_id[w]].status \notin {"success", "failed"}]_vars

\* Run r has been inserted and its status is one of ss.
HasStatus(r, ss) == r \in DOMAIN runs /\ runs[r].status \in ss

\* C12: with fair workers and store and network calls that return, every queued
\* run is eventually claimed (running) and eventually success or failed; a worker
\* sleeps after every claim attempt, and makes no attempt without having slept
\* since the one before.
C12_QueuedRunsFinish ==
    /\ \A r \in RunIds : HasStatus(r, {"queued"}) ~> HasStatus(r, {"running"})
    /\ \A r \in RunIds : HasStatus(r, {"queued"}) ~> HasStatus(r, {"success", "failed"})
    /\ \A w \in LiveWorkers : (pc[w] = "poll") ~> (pc[w] = "sleep")
    /\ [][\A w \in LiveWorkers : pc'[w] = "poll" /\ pc[w] # "poll" => pc[w] = "sleep"]_vars

\* A worker sleeps after the pipeline of the run it claimed ended in success.
C12_Witness ==
    \E w \in LiveWorkers :
        /\ Returned(w)
        /\ runs[run_id[w]].status = "success"

\* C13: no run stays running forever, also when a scrape never returns: the run
\* is eventually success or failed, and a worker does not stay in a hanging
\* scrape_company.
C13_RunsBounded ==
    /\ \A r \in RunIds : HasStatus(r, {"running"}) ~> HasStatus(r, {"success", "failed"})
    /\ \A w \in LiveWorkers : (pc[w] = "hung") ~> (pc[w] # "hung")

\* C14: a company whose scrape attempt raised contributes nothing and fails
\* nothing: scrape_company returned [], no metric (companies_scraped and errors
\* included) and no job row changed, and the loop is at the next company, or past
\* the last one and about to write the success update.
C14_ScrapeFailureIsolated ==
    \A w \in Workers :
        StepDone(w) /\ Snap(w).raised =>
            /\ Snap(w).scraped = 0
            /\ metrics[w] = Snap(w).metrics
            /\ jobs = Snap(w).jobs
            /\ todo[w] = Snap(w).rest
            /\ pc[w] = NextCompany(Snap(w).rest)

\* The scrape of a company raised and a later company is about to be scraped.
C14_Witness ==
    \E w \in Workers : StepDone(w) /\ Snap(w).raised /\ pc[w] = "scrape"

\* A run of white space counts as one space.
RECURSIVE Squeeze(_)
Squeeze(s) ==
    IF Len(s) <= 1 THEN s
    ELSE IF s[1] \in SpaceChars /\ s[2] \in SpaceChars THEN Squeeze(Tail(s))
    ELSE <<s[1]>> \o Squeeze(Tail(s))

\* The string a text denotes: its letters and digits without their case, in
\* words separated by one space.
Denoted(text) ==
    Strip(Squeeze(Filter([i \in 1..Len(text) |-> ToLower(text[i])],
                         (LowerChars \cup {"1"}) \cup SpaceChars)))

\* Two jobs whose title, company and location denote the same strings.
SameJob(a, b) ==
    /\ Denoted(a.title) = Denoted(b.title)
    /\ Denoted(a.company) = Denoted(b.company)
    /\ Denoted(a.location) = Denoted(b.location)

\* C15: two jobs whose title, company and location differ only in case, in
\* punctuation or in the amount of white space (leading, trailing or between
\* words) have the same job_key.
C15_JobKeyInvariant ==
    probe # None /\ probe[1].out # None /\ SameJob(probe[1].a, probe[1].b) =>
        probe[1].out[1][1] = probe[1].out[1][2]

\* No worker is between the first statement of save_jobs and the end of
\* invalidate_missing.
NoStepInProgress == \A v \in Workers : pc[v] \notin {"save", "invalidate", "inv_update"}

\* C16: when workers of different runs processed the same company, once their
\* persist-then-invalidate sequences are over no job of the batch whose save_jobs
\* committed last is unavailable.
C16_StepAtomic ==
    \A w \in Workers :
        /\ StepDone(w)
        /\ Snap(w).last
        /\ NoStepInProgress
        /\ \A v \in Workers \ {w} : run_id[v] # run_id[w]
        => \A r \in jobs :
               r.application_url \in BatchUrls(Snap(w)) => r.is_available

\* C17: the batch of save_jobs and the batch of upsert_companies are written all
\* or nothing.  While a worker is in the batch, and when the batch fails at any
\* element, the committed table stays as it was when the batch began; the step
\* that changes it is the one that ends the batch, and it writes every element.
C17_BatchAtomic ==
    [][\A w \in Workers :
          /\ pc[w] = "save" =>
                /\ jobs = Snap(w).jobs
                /\ IF pc'[w] \in {"save", "except"}
                   THEN jobs' = jobs
                   ELSE \A j \in Range(Snap(w).batch) :
                            \E r \in jobs' : /\ r.application_url = j.application_url
                                             /\ r.is_available
          /\ pc[w] = "upsert" =>
                IF pc'[w] \in {"upsert", "except"}
                THEN companies' = companies
                ELSE /\ \E r \in companies' : r.name = Head(discovered[w]).name
                     /\ \A o \in txn[w] : \E r \in companies' : r.name = o.name]_vars

\* A batch of save_jobs failed after one of its elements had been written, and
\* no job is persisted.
C17_Witness ==
    \E w \in Workers :
        /\ pc[w] = "except"
        /\ metrics[w].jobs_inserted + metrics[w].jobs_updated > 0
        /\ jobs = {}

IsSubsequence(sub, s) ==
    \E f \in [1..Len(sub) -> 1..Len(s)] :
        /\ \A i \in 1..Len(sub) : s[f[i]] = sub[i]
        /\ \A i, j \in 1..Len(sub) : i < j => f[i] < f[j]

\* C19: deduplicate keeps the first occurrence per key.  Its output is a
\* subsequence of its input in the input's order, no two jobs of the output have
\* the same job_key, the first input job of every key is in the output, and
\* deduplicate of the output is the output.
C19_DeduplicateFirst ==
    (probe # None /\ probe[1].fn = "deduplicate" /\ probe[1].out # None) =>
        LET in == probe[1].in
            out == probe[1].out[1]
        IN  /\ IsSubsequence(out, in)
            /\ \A i, j \in 1..Len(out) : i # j => job_key(out[i]) # job_key(out[j])
            /\ \A i \in 1..Len(in) :
                  (\A h \in 1..(i - 1) : job_key(in[h]) # job_key(in[i]))
                      => in[i] \in Range(out)
            /\ probe[1].twice = Some(out)

\* deduplicate has dropped a job whose key an earlier, different job had, and
\* kept a job that stood after it.
C19_Witness ==
    /\ probe # None
    /\ probe[1].fn = "deduplicate"
    /\ probe[1].out # None
    /\ Len(probe[1].in) = 3
    /\ job_key(probe[1].in[1]) = job_key(probe[1].in[2])
    /\ probe[1].in[1] # probe[1].in[2]
    /\ probe[1].out[1] = <<probe[1].in[1], probe[1].in[3]>>

\* The level the priority order gives: the level of the first entry of the
\* mapping whose keyword is in the text; with no such entry, the first of the
\* built-in sets entry, senior, lead that has a word in the text; else mid.
LevelByPriority(text, mapping) ==
    LET hits == {i \in 1..Len(mapping) : Contains(text, mapping[i][1])}
    IN  IF hits # {} THEN mapping[Min(hits)][2]
        ELSE IF \E w \in EntryWords : Contains(text, w) THEN "entry"
        ELSE IF \E w \in SeniorWords : Contains(text, w) THEN "senior"
        ELSE IF \E w \in LeadWords : Contains(text, w) THEN "lead"
        ELSE "mid"

\* C20: _determine_level is first-match-wins.  It returns the level of the first
\* mapping entry whose keyword is in the lower-cased "title description"; only
\* with no such entry the built-in entry, senior and lead sets decide, in that
\* order, else the level is mid.  A text with both "senior" and "entry" gets the
\* one level of that order (entry with the default mapping and with no mapping),
\* and a second call returns the same level.
C20_FirstMatchWins ==
    (probe # None /\ probe[1].fn = "_determine_level" /\ probe[1].out # None) =>
        LET text == LevelText(probe[1].title, probe[1].desc)
            both == Contains(text, <<"s", "e", "n", "i", "o", "r">>)
                        /\ Contains(text, <<"e", "n", "t", "r", "y">>)
        IN  /\ probe[1].out = Some(LevelByPriority(text, probe[1].mapping))
            /\ probe[1].again = probe[1].out
            /\ (both /\ probe[1].mapping \in {experienceLevelMapping, <<>>})
                  => probe[1].out = Some("entry")

\* A title "Senior ..." with a description that has "entry" was classified with
\* the default mapping.
C20_Witness ==
    /\ probe # None
    /\ probe[1].fn = "_determine_level"
    /\ probe[1].out = Some("entry")
    /\ probe[1].mapping = experienceLevelMapping
    /\ Contains(probe[1].title, <<"S", "e", "n", "i", "o", "r">>)
    /\ Contains(probe[1].desc, <<"e", "n", "t", "r", "y">>)

\* The dedup key of a candidate: its domain when it has one, else its name in
\* lower case.
DedupKey(c) ==
    IF Len(c.domain) > 0 THEN c.domain ELSE [i \in 1..Len(c.name) |-> ToLower(c.name[i])]

\* C21: discover_companies keeps the first candidate of every dedup key.  No two
\* candidates of the result have the same key, the result is in discovery
\* order, and the candidate kept for a key is the first found with that key,
\* with every field as found: nothing of a later duplicate is merged into it.
C21_DiscoverKeepsFirst ==
    (probe # None /\ probe[1].fn = "discover_companies" /\ probe[1].out # None) =>
        LET in == probe[1].in
            out == probe[1].out[1]
            First(k) == CHOOSE i \in 1..Len(in) :
                           /\ DedupKey(in[i]) = k
                           /\ \A h \in 1..(i - 1) : DedupKey(in[h]) # k
        IN  /\ \A i, j \in 1..Len(out) : i # j => DedupKey(out[i]) # DedupKey(out[j])
            /\ Len(out) = Cardinality({DedupKey(in[i]) : i \in 1..Len(in)})
            /\ \A i \in 1..Len(out) : out[i] = in[First(DedupKey(out[i]))]
            /\ \A i, j \in 1..Len(out) :
                  i < j => First(DedupKey(out[i])) < First(DedupKey(out[j]))

\* A later candidate of the first one's key, with other fields, was discarded.
C21_Witness ==
    /\ probe # None
    /\ probe[1].fn = "discover_companies"
    /\ probe[1].out # None
    /\ Len(probe[1].in) = 3
    /\ DedupKey(probe[1].in[1]) = DedupKey(probe[1].in[3])
    /\ probe[1].in[1] # probe[1].in[3]
    /\ probe[1].in[1].careers_url = None
    /\ probe[1].out[1] = <<probe[1].in[1], probe[1].in[2]>>

\* Worker w writes the success update of its run in this step.
WritesSuccess(w) == pc[w] = "finish" /\ pc'[w] = "sleep"

\* C22: the counters of a run that ends in success add up.  In the row the
\* success update writes, jobs_inserted + jobs_updated is the number of
\* deduplicated jobs run_pipeline passed to save_jobs, that number is at most
\* jobs_scraped, and companies_scraped is the number of companies whose scrape
\* returned at least one job.
C22_CountersAddUp ==
    [][\A w \in Workers :
          WritesSuccess(w) =>
             LET row == runs'[run_id[w]] IN
             /\ row.status = "success"
             /\ row.jobs_inserted[1] + row.jobs_updated[1] = passed[w].unique
             /\ passed[w].unique <= row.jobs_scraped[1]
             /\ row.companies_scraped[1] = passed[w].nonempty]_vars

\* A run has ended in success after two companies were scraped, a duplicate
\* was dropped from a batch, and a job was written by an update.
C22_Witness ==
    \E w \in Workers :
        /\ Returned(w)
        /\ runs[run_id[w]].status = "success"
        /\ runs[run_id[w]].companies_scraped = Some(2)
        /\ passed[w].unique < metrics[w].jobs_scraped
        /\ metrics[w].jobs_updated > 0

\* C23: when save_jobs and invalidate_missing have completed for a non-empty
\* deduplicated batch, with no other writer, every URL of the batch has a
\* persisted job and every persisted job at a URL of the batch is available,
\* whatever its availability and its company were before.
C23_BatchAvailable ==
    \A w \in Workers :
        (StepDone(w) /\ Len(Snap(w).batch) > 0) =>
            \A u \in Range(UrlsOf(Snap(w).batch)) :
                /\ \E r \in jobs : r.application_url = u
                /\ \A r \in jobs : r.application_url = u => r.is_available

\* A batch of one company has completed, and a job of it is a row of another
\* company that was unavailable when the batch began.
C23_Witness ==
    \E w \in Workers :
        /\ StepDone(w)
        /\ \E r \in jobs :
              /\ r.application_url \in Range(UrlsOf(Snap(w).batch))
              /\ r.company_id # Snap(w).company
              /\ r.is_available
              /\ \E o \in Snap(w).jobs : o.id = r.id /\ ~o.is_available

\* C24: the jobs_inserted and jobs_updated recorded in the details of a failed
\* run count committed writes only: they add up to the job writes of the
\* save_jobs transactions that committed, the rows of a batch that was rolled
\* back not included.
C24_CountsCommittedOnly ==
    \A w \in Workers :
        (/\ Returned(w)
         /\ runs[run_id[w]].status = "failed"
         /\ runs[run_id[w]].details = Some(metrics[w]))
        => metrics[w].jobs_inserted + metrics[w].jobs_updated = passed[w].committed

\* C25: the ownership of a job row is fixed at insert.  No step changes the
\* company_id or the company of a persisted row, a save_jobs of another company
\* that hits its application_url included; and a row becomes unavailable only
\* in the UPDATE of an invalidate_missing that runs for the row's own company.
C25_OwnershipFixed ==
    [][\A r \in jobs :
          \E n \in jobs' :
             /\ n.id = r.id
             /\ n.application_url = r.application_url
             /\ n.company_id = r.company_id
             /\ n.company = r.company
             /\ (r.is_available /\ ~n.is_available) =>
                   \E w \in Workers :
                      /\ pc[w] = "inv_update"
                      /\ pc'[w] # "inv_update"
                      /\ Head(todo[w]).id = r.company_id]_vars

\* A company's loop body has completed: its save_jobs hit a row that another
\* company had inserted, and its invalidate_missing disabled a row of its own.
C25_Witness ==
    \E w \in Workers :
        /\ StepDone(w)
        /\ \E r \in jobs :
              /\ r.application_url \in BatchUrls(Snap(w))
              /\ r.company_id # Snap(w).company
              /\ \E o \in Snap(w).jobs : o.id = r.id
        /\ \E y \in jobs :
              /\ y.company_id = Snap(w).company
              /\ ~y.is_available
              /\ \E o \in Snap(w).jobs : o.id = y.id /\ o.is_available

====
